---- MODULE Spec2Model ----
(***************************************************************************)
(* Model of the product catalogue service (src/server.js): the product     *)
(* CRUD handlers, the product-request moderation handlers and the listing  *)
(* query builder, over a relational store whose tables are sets of rows.   *)
(***************************************************************************)
EXTENDS Integers, Sequences, FiniteSets, TLC

\* ------------------------------------------------------------------ bounds
MaxProducts == 2    \* product ids the store hands out in one behaviour
MaxRequests == 2    \* product-request ids the store hands out
NumHandlers == 2    \* PUT /api/product-requests/:id handlers in flight (SpecConc)

\* SQL NULL, which is also what an undefined body field is written as.
NULL == "<null>"

VARIABLES
    products,           \* table products: a set of rows
    product_requests,   \* table product_requests: a set of rows
    nextProductId,      \* the serial behind products.id
    nextRequestId,      \* the serial behind product_requests.id
    createdFrom,        \* history: product id -> id of the request it was inserted from
    res,                \* the last HTTP response, with the pool.query calls its handler made
    dec,                \* SpecConc: each in-flight Decide handler's position and locals
    req_query,          \* req.query of the last GET /api/products
    sqlText,            \* the statement it built (what it logs as 'Constructed Query')
    params,             \* the parameter list it bound ('Parameters')
    result              \* result.rows of its query

listvars == <<req_query, sqlText, params, result>>

vars == <<products, product_requests, nextProductId, nextRequestId, createdFrom,
          res, dec, req_query, sqlText, params, result>>

\* ------------------------------------------------------------ request bodies
ProductFields ==
    {"name", "description", "price", "category_id", "image_url", "affiliate_url", "address"}

BodyA ==
    [name |-> "apple", description |-> "red", price |-> 3, category_id |-> 1,
     image_url |-> "http://a.ca/i.png", affiliate_url |-> "http://a.ca/buy",
     address |-> NULL]

BodyB ==
    [name |-> "pear", description |-> "green", price |-> 7, category_id |-> 2,
     image_url |-> "http://p.ca/i.png", affiliate_url |-> "http://p.ca/buy",
     address |-> "12 Main St"]

\* Bodies that break one validation rule each.
InvalidBodies ==
    { [BodyA EXCEPT !.name = ""], [BodyA EXCEPT !.description = ""],
      [BodyA EXCEPT !.price = 0], [BodyA EXCEPT !.price = -5],
      [BodyA EXCEPT !.category_id = 0], [BodyA EXCEPT !.image_url = "not a url"],
      [BodyA EXCEPT !.affiliate_url = "not a url"] }

Bodies == {BodyA, BodyB} \cup InvalidBodies

\* Bodies sent to PUT /api/products/:id.
UpdateBodies == {BodyB, [BodyA EXCEPT !.price = -5]}

\* Bodies sent to POST /api/product-requests, with the submitting user's id.
RequestBodies ==
    {<<b, 1>> : b \in {BodyA} \cup InvalidBodies} \cup {<<BodyA, 0>>}

\* express-validator's isURL, on the URLs the bodies use.
isURL(u) == u \in {"http://a.ca/i.png", "http://a.ca/buy", "http://p.ca/i.png", "http://p.ca/buy"}

\* The validation chain of POST /api/products.
ProductBodyValid(b) ==
    /\ b.name # ""
    /\ b.description # ""
    /\ b.price > 0
    /\ b.category_id > 0
    /\ isURL(b.image_url)
    /\ isURL(b.affiliate_url)

\* The validation chain of POST /api/product-requests.
RequestBodyValid(b, user_id) == ProductBodyValid(b) /\ user_id > 0

\* ------------------------------------------------------------------- store
ProductRow(id, b) ==
    [id |-> id, name |-> b.name, description |-> b.description, price |-> b.price,
     category_id |-> b.category_id, image_url |-> b.image_url,
     affiliate_url |-> b.affiliate_url, address |-> b.address]

\* INSERT INTO product_requests (...): status takes the column default.
RequestRow(id, b, user_id) ==
    [id |-> id, user_id |-> user_id, name |-> b.name, description |-> b.description,
     price |-> b.price, category_id |-> b.category_id, image_url |-> b.image_url,
     affiliate_url |-> b.affiliate_url, address |-> b.address, status |-> "pending"]

\* UPDATE products SET name = $1, description = $2, price = $3, category_id = $4,
\* image_url = $5, address = $6 WHERE id = $7
UpdateRow(p, b) ==
    [p EXCEPT !.name = b.name, !.description = b.description, !.price = b.price,
              !.category_id = b.category_id, !.image_url = b.image_url,
              !.address = b.address]

UpdateProducts(tbl, id, b) ==
    {IF p.id = id THEN UpdateRow(p, b) ELSE p : p \in tbl}

\* DELETE FROM products WHERE id = $1
DeleteProducts(tbl, id) == {p \in tbl : p.id # id}

\* SELECT * FROM product_requests WHERE id = $1
SelectRequest(tbl, id) == {r \in tbl : r.id = id}

\* The INSERT with two of its values in each other's place.
ProductFromRequestSwapped(id, r) ==
    [id |-> id, name |-> r.name, description |-> r.description, price |-> r.price,
     category_id |-> r.category_id, image_url |-> r.affiliate_url,
     affiliate_url |-> r.image_url, address |-> r.address]

\* INSERT INTO products (...) VALUES (productRequest.name, ...)
ProductFromRequest(id, r) ==
    [id |-> id, name |-> r.name, description |-> r.description, price |-> r.price,
     category_id |-> r.category_id, image_url |-> r.image_url,
     affiliate_url |-> r.affiliate_url, address |-> r.address]

\* UPDATE product_requests SET status = $1 WHERE id = $2
SetStatus(tbl, id, status) ==
    {IF r.id = id THEN [r EXCEPT !.status = status] ELSE r : r \in tbl}

\* The status check letting every status of the column's domain through.
StatusValidAnyKnown(status) == status \in {"approved", "rejected", "pending"}

\* The status check of PUT /api/product-requests/:id.
StatusValid(status) == ~(status # "approved" /\ status # "rejected")

DecideMessage(status) ==
    IF status = "approved" THEN "Product request approved" ELSE "Product request rejected"

Response(op, code, msg, nq) == [op |-> op, code |-> code, msg |-> msg, nq |-> nq]

IdleHandler == [pc |-> "idle", id |-> 0, status |-> "", rows |-> {}, nq |-> 0]

Handlers == 1 .. NumHandlers

\* A query-string parameter: absent (undefined), or a string of characters.
Absent == [present |-> FALSE, s |-> <<>>]

P(s) == [present |-> TRUE, s |-> s]

\* sort_by and order, which are pasted into the statement as they come.
AbsentId == [present |-> FALSE, s |-> ""]

NoQuery ==
    [page |-> Absent, limit |-> Absent, category_id |-> Absent, min_price |-> Absent,
     max_price |-> Absent, sort_by |-> AbsentId, order |-> AbsentId, sent |-> FALSE]

Init ==
    /\ products = {}
    /\ product_requests = {}
    /\ nextProductId = 1
    /\ nextRequestId = 1
    /\ createdFrom = <<>>
    /\ res = Response("none", 0, "", 0)
    /\ dec = [h \in Handlers |-> IdleHandler]
    /\ req_query = NoQuery
    /\ sqlText = <<>>
    /\ params = <<>>
    /\ result = <<>>

\* ----------------------------------------------------------------- handlers
\* POST /api/products
PostProduct(b) ==
    /\ UNCHANGED listvars
    /\ nextProductId <= MaxProducts
    /\ IF ~ProductBodyValid(b)
       THEN /\ res' = Response("postProduct", 400, "errors", 0)
            /\ UNCHANGED <<products, nextProductId>>
       ELSE /\ products' = products \cup {ProductRow(nextProductId, b)}
            /\ nextProductId' = nextProductId + 1
            /\ res' = Response("postProduct", 200, "row", 1)
    /\ UNCHANGED <<product_requests, nextRequestId, createdFrom, dec>>

\* PUT /api/products/:id
PutProduct(id, b) ==
    /\ UNCHANGED listvars
    /\ products' = UpdateProducts(products, id, b)
    /\ res' = Response("putProduct", 200, IF \E p \in products : p.id = id THEN "row" ELSE "empty", 1)
    /\ UNCHANGED <<product_requests, nextProductId, nextRequestId, createdFrom, dec>>

\* DELETE /api/products/:id
DeleteProduct(id) ==
    /\ UNCHANGED listvars
    /\ products' = DeleteProducts(products, id)
    /\ res' = Response("deleteProduct", 200, "Product deleted", 1)
    /\ UNCHANGED <<product_requests, nextProductId, nextRequestId, createdFrom, dec>>

\* POST /api/product-requests
PostProductRequest(b, user_id) ==
    /\ UNCHANGED listvars
    /\ nextRequestId <= MaxRequests
    /\ IF ~RequestBodyValid(b, user_id)
       THEN /\ res' = Response("postRequest", 400, "errors", 0)
            /\ UNCHANGED <<product_requests, nextRequestId>>
       ELSE /\ product_requests' = product_requests \cup {RequestRow(nextRequestId, b, user_id)}
            /\ nextRequestId' = nextRequestId + 1
            /\ res' = Response("postRequest", 200, "row", 1)
    /\ UNCHANGED <<products, nextProductId, createdFrom, dec>>

FailPoints == {"none", "select", "insert", "update", "crash"}

\* PUT /api/product-requests/:id, run from the current tables to its response:
\* the tables it leaves and the response it sends. fail names the pool.query call
\* that throws ("crash": the process dies before the UPDATE is sent).
DecideOutcome(id, status, fail) ==
    LET rows == SelectRequest(product_requests, id)
        r == CHOOSE x \in rows : TRUE
        approve == status = "approved"
        nIns == IF approve THEN 1 ELSE 0
        same == [products |-> products, product_requests |-> product_requests,
                 nextProductId |-> nextProductId, createdFrom |-> createdFrom]
        inserted ==
            IF approve
            THEN [same EXCEPT !.products = products \cup {ProductFromRequest(nextProductId, r)},
                              !.nextProductId = nextProductId + 1,
                              !.createdFrom = createdFrom @@ (nextProductId :> r.id)]
            ELSE same
    IN  IF ~StatusValid(status)
        THEN [db |-> same, res |-> Response("decide", 400, "Invalid status", 0)]
        ELSE IF fail = "select"
        THEN [db |-> same, res |-> Response("decide", 500, "Internal server error", 1)]
        ELSE IF rows = {}
        THEN [db |-> same, res |-> Response("decide", 404, "Product request not found", 1)]
        ELSE IF approve /\ fail = "insert"
        THEN [db |-> same, res |-> Response("decide", 500, "Internal server error", 2)]
        ELSE IF fail = "crash"
        THEN [db |-> inserted, res |-> Response("decide", 0, "", 1 + nIns)]
        ELSE IF fail = "update"
        THEN [db |-> inserted, res |-> Response("decide", 500, "Internal server error", 2 + nIns)]
        ELSE [db |-> [inserted EXCEPT !.product_requests = SetStatus(product_requests, id, status)],
              res |-> Response("decide", 200, DecideMessage(status), 2 + nIns)]

PutProductRequest(id, status, fail) ==
    /\ UNCHANGED listvars
    /\ status = "approved" => nextProductId <= MaxProducts
    /\ LET out == DecideOutcome(id, status, fail)
       IN  /\ products' = out.db.products
           /\ product_requests' = out.db.product_requests
           /\ nextProductId' = out.db.nextProductId
           /\ createdFrom' = out.db.createdFrom
           /\ res' = out.res
    /\ UNCHANGED <<nextRequestId, dec>>

Statuses == {"approved", "rejected", "pending", "maybe"}

ProductIds == 1 .. (MaxProducts + 1)

RequestIds == 1 .. (MaxRequests + 1)

Next ==
    \/ \E b \in Bodies : PostProduct(b)
    \/ \E id \in ProductIds, b \in UpdateBodies : PutProduct(id, b)
    \/ \E id \in ProductIds : DeleteProduct(id)
    \/ \E s \in RequestBodies : PostProductRequest(s[1], s[2])
    \/ \E id \in RequestIds, st \in Statuses, f \in FailPoints : PutProductRequest(id, st, f)

Spec == Init /\ [][Next]_vars

\* The moderation workflow with direct product creation beside it.
NextModeration ==
    \/ \E b \in Bodies : PostProduct(b)
    \/ \E s \in RequestBodies : PostProductRequest(s[1], s[2])
    \/ \E id \in RequestIds, st \in Statuses, f \in FailPoints : PutProductRequest(id, st, f)

SpecModeration == Init /\ [][NextModeration]_vars

\* ------------------------------------------- concurrent Decide handlers
\* PUT /api/product-requests/:id up to its first await: the status check, then
\* the SELECT, which the store runs as one step.
DecideStart(h, id, status) ==
    /\ UNCHANGED listvars
    /\ dec[h].pc = "idle"
    /\ LET rows == SelectRequest(product_requests, id)
       IN  IF ~StatusValid(status)
           THEN /\ dec' = [dec EXCEPT ![h] = [pc |-> "done", id |-> id, status |-> status,
                                               rows |-> {}, nq |-> 0]]
                /\ res' = Response("decide", 400, "Invalid status", 0)
           ELSE IF rows = {}
           THEN /\ dec' = [dec EXCEPT ![h] = [pc |-> "done", id |-> id, status |-> status,
                                               rows |-> {}, nq |-> 1]]
                /\ res' = Response("decide", 404, "Product request not found", 1)
           ELSE /\ dec' = [dec EXCEPT ![h] =
                              [pc |-> IF status = "approved" THEN "insert" ELSE "update",
                               id |-> id, status |-> status, rows |-> rows, nq |-> 1]]
                /\ UNCHANGED res
    /\ UNCHANGED <<products, product_requests, nextProductId, nextRequestId, createdFrom>>

\* The handler resumes after the SELECT and sends the INSERT.
DecideInsert(h) ==
    /\ UNCHANGED listvars
    /\ dec[h].pc = "insert"
    /\ nextProductId <= MaxProducts
    /\ LET r == CHOOSE x \in dec[h].rows : TRUE
       IN  /\ products' = products \cup {ProductFromRequest(nextProductId, r)}
           /\ createdFrom' = createdFrom @@ (nextProductId :> r.id)
    /\ nextProductId' = nextProductId + 1
    /\ dec' = [dec EXCEPT ![h].pc = "update", ![h].nq = @ + 1]
    /\ UNCHANGED <<product_requests, nextRequestId, res>>

\* The handler sends the UPDATE and responds.
DecideUpdate(h) ==
    /\ UNCHANGED listvars
    /\ dec[h].pc = "update"
    /\ product_requests' = SetStatus(product_requests, dec[h].id, dec[h].status)
    /\ dec' = [dec EXCEPT ![h].pc = "done", ![h].nq = @ + 1]
    /\ res' = Response("decide", 200, DecideMessage(dec[h].status), dec[h].nq + 1)
    /\ UNCHANGED <<products, nextProductId, nextRequestId, createdFrom>>

NextConc ==
    \/ \E s \in RequestBodies : PostProductRequest(s[1], s[2])
    \/ \E h \in Handlers, id \in RequestIds, st \in Statuses : DecideStart(h, id, st)
    \/ \E h \in Handlers : DecideInsert(h)
    \/ \E h \in Handlers : DecideUpdate(h)

SpecConc == Init /\ [][NextConc]_vars

\* ------------------------------------------------- GET /api/products
MaxLen == 2     \* longest min_price / max_price string tried
MaxRows == 2    \* most rows of the products table the listing runs on
MaxPage == 3    \* highest page tried
MaxLimit == 2   \* highest explicit limit tried
DefaultPage == 1
DefaultLimit == 10

\* A JavaScript number: NaN, or the decimal m / 10^e (-0 and 0 are one value:
\* the code only ever compares it with 0).
NaN == [nan |-> TRUE, m |-> 0, e |-> 0]

Dec(m, e) == [nan |-> FALSE, m |-> m, e |-> e]

\* A value of the bound parameter list: a string as received, or a number.
Str(s) == [t |-> "str", s |-> s, n |-> Dec(0, 0)]

Num(n) == [t |-> "num", s |-> <<>>, n |-> n]

Digits == {"0", "1", "2", "3", "4", "5", "6", "7", "8", "9"}

DigitVal(c) ==
    CASE c = "0" -> 0 [] c = "1" -> 1 [] c = "2" -> 2 [] c = "3" -> 3 [] c = "4" -> 4
      [] c = "5" -> 5 [] c = "6" -> 6 [] c = "7" -> 7 [] c = "8" -> 8 [] c = "9" -> 9

DigitChar(n) == CHOOSE c \in Digits : DigitVal(c) = n

RECURSIVE Pow10(_)
Pow10(n) == IF n = 0 THEN 1 ELSE 10 * Pow10(n - 1)

RECURSIVE TrimLeft(_)
TrimLeft(s) == IF s # <<>> /\ Head(s) = " " THEN TrimLeft(Tail(s)) ELSE s

RECURSIVE TrimRight(_)
TrimRight(s) ==
    IF s # <<>> /\ s[Len(s)] = " " THEN TrimRight(SubSeq(s, 1, Len(s) - 1)) ELSE s

\* The digits of s from position i on.
RECURSIVE DigitRun(_, _)
DigitRun(s, i) == IF i <= Len(s) /\ s[i] \in Digits THEN 1 + DigitRun(s, i + 1) ELSE 0

\* The value of the n digits of s that start at position i.
RECURSIVE DigitsValue(_, _, _)
DigitsValue(s, i, n) ==
    IF n = 0 THEN 0 ELSE DigitsValue(s, i, n - 1) * 10 + DigitVal(s[i + n - 1])

\* The longest prefix of s that is a decimal literal (sign, digits, fraction):
\* whether there is one, its length and its value.
ScanDecimal(s) ==
    LET sign == IF s # <<>> /\ s[1] \in {"-", "+"} THEN 1 ELSE 0
        ni == DigitRun(s, sign + 1)
        dot == sign + ni + 1 <= Len(s) /\ s[sign + ni + 1] = "."
        nf == IF dot THEN DigitRun(s, sign + ni + 2) ELSE 0
        m == DigitsValue(s, sign + 1, ni) * Pow10(nf) + DigitsValue(s, sign + ni + 2, nf)
    IN  [ok |-> ni + nf > 0,
         len |-> sign + ni + (IF dot THEN 1 + nf ELSE 0),
         val |-> Dec(IF sign = 1 /\ s[1] = "-" THEN -m ELSE m, nf)]

\* Number(s), the conversion isNaN and the arithmetic operators apply to a string.
ToNumber(s) ==
    LET t == TrimRight(TrimLeft(s))
        sc == ScanDecimal(t)
    IN  IF t = <<>> THEN Dec(0, 0)
        ELSE IF sc.ok /\ sc.len = Len(t) THEN sc.val ELSE NaN

parseFloat(s) ==
    LET sc == ScanDecimal(TrimLeft(s))
    IN  IF sc.ok THEN sc.val ELSE NaN

isNaN(s) == ToNumber(s).nan

\* x >= 0 on a JavaScript number (false for NaN).
GeZero(x) == ~x.nan /\ x.m >= 0

\* validatePrice without its sign test.
validatePriceNoSign(price) == ~isNaN(price)

validatePrice(price) == ~isNaN(price) /\ GeZero(parseFloat(price))

\* The truth value the handler's if (category_id), if (min_price), ... test.
Truthy(v) == v.present /\ v.s # <<>>

\* a - b and a * b on JavaScript numbers.
NumSub(a, b) ==
    IF a.nan \/ b.nan THEN NaN
    ELSE LET e == IF a.e > b.e THEN a.e ELSE b.e
         IN  Dec(a.m * Pow10(e - a.e) - b.m * Pow10(e - b.e), e)

NumMul(a, b) == IF a.nan \/ b.nan THEN NaN ELSE Dec(a.m * b.m, a.e + b.e)

\* A destructured query parameter as the value the handler computes with.
PageValue(q) == IF q.page.present THEN Str(q.page.s) ELSE Num(Dec(DefaultPage, 0))

LimitValue(q) == IF q.limit.present THEN Str(q.limit.s) ELSE Num(Dec(DefaultLimit, 0))

SortBy(q) == IF q.sort_by.present THEN q.sort_by.s ELSE "id"

Order(q) == IF q.order.present THEN q.order.s ELSE "ASC"

JsNumber(v) == IF v.t = "str" THEN ToNumber(v.s) ELSE v.n

\* The offset of a handler that counts pages from 0.
OffsetPageFromZero(page, limit) == NumMul(JsNumber(page), JsNumber(limit))

\* const offset = (page - 1) * limit
Offset(page, limit) == NumMul(NumSub(JsNumber(page), Dec(1, 0)), JsNumber(limit))

\* The pieces of the statement text.
Kw(k) == [t |-> "kw", col |-> k, op |-> "", ph |-> 0]

Cond(col, op, ph) == [t |-> "cond", col |-> col, op |-> op, ph |-> ph]

\* conditions.push('category_id = $1')
CategoryClause(ps) == Cond("category_id", "=", 1)

\* The min_price clause with its placeholder written out, as category_id's is.
MinPriceClauseFixed(ps) == Cond("price", ">=", 2)

\* conditions.push('price >= $' + (params.length + 1))
MinPriceClause(ps) == Cond("price", ">=", Len(ps) + 1)

\* conditions.push('price <= $' + (params.length + 1))
MaxPriceClause(ps) == Cond("price", "<=", Len(ps) + 1)

\* conditions.join(' AND ')
RECURSIVE JoinAnd(_)
JoinAnd(conds) ==
    IF Len(conds) <= 1 THEN conds
    ELSE <<Head(conds), Kw("AND")>> \o JoinAnd(Tail(conds))

\* The statement and parameter list GET /api/products builds once the price
\* checks have passed.
BuildQuery(q) ==
    LET c1 == IF Truthy(q.category_id) THEN <<CategoryClause(<<>>)>> ELSE <<>>
        p1 == IF Truthy(q.category_id) THEN <<Str(q.category_id.s)>> ELSE <<>>
        c2 == IF Truthy(q.min_price) THEN Append(c1, MinPriceClause(p1)) ELSE c1
        p2 == IF Truthy(q.min_price) THEN Append(p1, Str(q.min_price.s)) ELSE p1
        c3 == IF Truthy(q.max_price) THEN Append(c2, MaxPriceClause(p2)) ELSE c2
        p3 == IF Truthy(q.max_price) THEN Append(p2, Str(q.max_price.s)) ELSE p2
        where == IF Len(c3) > 0 THEN <<Kw("WHERE")>> \o JoinAnd(c3) ELSE <<>>
    IN  [text |-> <<Kw("SELECT * FROM products")>> \o where \o
                  << [t |-> "order", col |-> SortBy(q), op |-> Order(q), ph |-> 0],
                     [t |-> "limit", col |-> "", op |-> "", ph |-> Len(p3) + 1],
                     [t |-> "offset", col |-> "", op |-> "", ph |-> Len(p3) + 2] >>,
         params |-> p3 \o <<LimitValue(q), Num(Offset(PageValue(q), LimitValue(q)))>>]

\* ---- the store's side of pool.query(query, params)
\* A parameter read as a numeric: the empty string is no number to the store.
PgNumeric(v) ==
    IF v.t = "num" THEN v.n
    ELSE IF TrimLeft(v.s) = <<>> THEN NaN ELSE ToNumber(v.s)

\* A parameter read as an integer.
PgInteger(v) ==
    LET n == PgNumeric(v)
    IN  IF n.nan \/ n.e > 0 \/ (v.t = "str" /\ \E i \in 1 .. Len(v.s) : v.s[i] = ".")
        THEN NaN ELSE n

Tokens(text, t) == SelectSeq(text, LAMBDA x : x.t = t)

PgParam(text, ps, c) ==
    IF c.ph \notin 1 .. Len(ps) THEN NaN
    ELSE IF c.t = "cond" /\ c.col = "price" THEN PgNumeric(ps[c.ph])
    ELSE PgInteger(ps[c.ph])

\* The store refuses the statement: a placeholder without a parameter, a parameter
\* that is no number of its column's type, a negative LIMIT or OFFSET.
StoreRejects(text, ps) ==
    \/ \E i \in 1 .. Len(text) :
          /\ text[i].t \in {"cond", "limit", "offset"}
          /\ PgParam(text, ps, text[i]).nan
    \/ \E i \in 1 .. Len(text) :
          /\ text[i].t \in {"limit", "offset"}
          /\ PgParam(text, ps, text[i]).m < 0

\* One WHERE condition on one row.
CondHolds(p, c, v) ==
    CASE c.col = "category_id" -> p.category_id = v.m
      [] c.op = ">=" -> p.price * Pow10(v.e) >= v.m
      [] c.op = "<=" -> p.price * Pow10(v.e) <= v.m

\* The rows the WHERE clause keeps.
Filtered(tbl, text, ps) ==
    {p \in tbl : \A i \in 1 .. Len(text) :
        text[i].t = "cond" => CondHolds(p, text[i], PgParam(text, ps, text[i]))}

SortKey(p, col) == IF col = "price" THEN p.price ELSE p.id

\* The orders ORDER BY col dir allows for the rows (rows with equal keys come in
\* any order).
Ordered(rows, col, dir) ==
    LET n == Cardinality(rows)
    IN  {f \in [1 .. n -> rows] :
            /\ \A i, j \in 1 .. n : i # j => f[i] # f[j]
            /\ \A i, j \in 1 .. n : i < j =>
                  IF dir = "DESC" THEN SortKey(f[i], col) >= SortKey(f[j], col)
                                  ELSE SortKey(f[i], col) <= SortKey(f[j], col)}

\* LIMIT lim OFFSET off of an ordered result.
LimitOffset(full, lim, off) ==
    LET last == IF off + lim < Len(full) THEN off + lim ELSE Len(full)
    IN  IF off >= Len(full) THEN <<>> ELSE SubSeq(full, off + 1, last)

\* GET /api/products
GetProducts(q) ==
    /\ req_query' = q
    /\ IF Truthy(q.min_price) /\ ~validatePrice(q.min_price.s)
       THEN /\ res' = Response("getProducts", 400, "Invalid min_price", 0)
            /\ sqlText' = <<>> /\ params' = <<>> /\ result' = <<>>
       ELSE IF Truthy(q.max_price) /\ ~validatePrice(q.max_price.s)
       THEN /\ res' = Response("getProducts", 400, "Invalid max_price", 0)
            /\ sqlText' = <<>> /\ params' = <<>> /\ result' = <<>>
       ELSE LET b == BuildQuery(q)
                ord == Tokens(b.text, "order")[1]
                lim == PgParam(b.text, b.params, Tokens(b.text, "limit")[1]).m
                off == PgParam(b.text, b.params, Tokens(b.text, "offset")[1]).m
            IN  /\ sqlText' = b.text
                /\ params' = b.params
                /\ IF StoreRejects(b.text, b.params)
                   THEN /\ res' = Response("getProducts", 500, "Internal server error", 1)
                        /\ result' = <<>>
                   ELSE /\ res' = Response("getProducts", 200, "rows", 1)
                        /\ \E full \in Ordered(Filtered(products, b.text, b.params),
                                               ord.col, ord.op) :
                              result' = LimitOffset(full, lim, off)
    /\ UNCHANGED <<products, product_requests, nextProductId, nextRequestId,
                   createdFrom, dec>>

\* ---- the requests the listing is run on
PriceChars == {"-", "0", "5", ".", "a", " "}

PriceParams == {Absent} \cup {P(s) : s \in UNION {[1 .. k -> PriceChars] : k \in 0 .. MaxLen}}

FewPrices == {Absent, P(<<"5">>), P(<<"-", "5">>), P(<<"a">>)}

PageParams == {Absent, P(<<"a">>)} \cup {P(<<DigitChar(n)>>) : n \in 0 .. MaxPage}

LimitParams == {Absent} \cup {P(<<DigitChar(n)>>) : n \in 0 .. MaxLimit}

CategoryParams == {Absent, P(<<>>), P(<<"1">>), P(<<"2">>), P(<<"a">>)}

SortParams == {AbsentId, [present |-> TRUE, s |-> "id"], [present |-> TRUE, s |-> "price"]}

OrderParams == {AbsentId, [present |-> TRUE, s |-> "ASC"], [present |-> TRUE, s |-> "DESC"]}

\* Every price string against a few settings of the other parameters.
QueriesPrice ==
    [page : {Absent, P(<<"2">>)}, limit : {Absent, P(<<"1">>)},
     category_id : {Absent, P(<<"1">>)}, min_price : PriceParams, max_price : FewPrices,
     sort_by : {AbsentId}, order : {AbsentId}, sent : {TRUE}]
    \cup
    [page : {Absent, P(<<"2">>)}, limit : {Absent, P(<<"1">>)},
     category_id : {Absent, P(<<"1">>)}, min_price : FewPrices, max_price : PriceParams,
     sort_by : {AbsentId}, order : {AbsentId}, sent : {TRUE}]

\* Every page, limit, category and ordering against a few price filters.
QueriesPage ==
    [page : PageParams, limit : LimitParams, category_id : CategoryParams,
     min_price : {Absent, P(<<"5">>)}, max_price : {Absent, P(<<"5">>)},
     sort_by : SortParams, order : OrderParams, sent : {TRUE}]

Queries == QueriesPrice \cup QueriesPage

\* The products tables POST /api/products can have built.
ListTables ==
    UNION {{{ProductRow(i, f[i]) : i \in 1 .. n} : f \in [1 .. n -> {BodyA, BodyB}]} :
           n \in 0 .. MaxRows}

InitList ==
    /\ products \in ListTables
    /\ product_requests = {}
    /\ nextProductId = Cardinality(products) + 1
    /\ nextRequestId = 1
    /\ createdFrom = <<>>
    /\ res = Response("none", 0, "", 0)
    /\ dec = [h \in Handlers |-> IdleHandler]
    /\ req_query = NoQuery
    /\ sqlText = <<>>
    /\ params = <<>>
    /\ result = <<>>

\* One listing per behaviour: it leaves the tables as they are, so a second one
\* starts from the same store.
NextList == ~req_query.sent /\ \E q \in Queries : GetProducts(q)

SpecList == InitList /\ [][NextList]_vars

\* ------------------------------------------------------------------ claims
\* The products inserted from request id, deleted since or not.
CreatedFromRequest(cf, id) == {pid \in DOMAIN cf : cf[pid] = id}

\* C1: once a request's status is approved or rejected, no later Decide changes
\* the status or inserts another product from the request.
C1_StatusTerminal ==
    [][\A r \in product_requests :
          r.status \in {"approved", "rejected"} =>
            /\ r \in product_requests'
            /\ CreatedFromRequest(createdFrom', r.id) = CreatedFromRequest(createdFrom, r.id)]_vars

\* C2: approving a known pending request, with no store failure, adds exactly one
\* product row whose seven fields are the request's, sets the request's status to
\* approved, and changes no other product row and no other request.
C2_ApproveCreatesProduct ==
    \A r \in product_requests :
        r.status = "pending" =>
          LET out == DecideOutcome(r.id, "approved", "none").db
          IN  /\ \E p \in out.products :
                    /\ p \notin products
                    /\ out.products = products \cup {p}
                    /\ \A f \in ProductFields : p[f] = r[f]
              /\ Cardinality(out.products) = Cardinality(products) + 1
              /\ out.product_requests =
                    (product_requests \ {r}) \cup {[r EXCEPT !.status = "approved"]}

\* C2's case: an approval has just answered, its product sits beside another
\* product, and another request is still pending.
C2_Witness ==
    /\ res = Response("decide", 200, "Product request approved", 3)
    /\ \E r \in product_requests, p \in products :
          /\ r.status = "approved"
          /\ p.id \in CreatedFromRequest(createdFrom, r.id)
          /\ p.id = nextProductId - 1
          /\ \E q \in products : q.id # p.id
          /\ \E o \in product_requests : o.id # r.id /\ o.status = "pending"

\* C3: approval is all-or-nothing, store failures and crashes included: no
\* pending request has a product inserted from it, and every approved request has one.
C3_ApprovalAtomic ==
    \A r \in product_requests :
        /\ r.status = "pending" => CreatedFromRequest(createdFrom, r.id) = {}
        /\ r.status = "approved" => CreatedFromRequest(createdFrom, r.id) # {}

\* C4: a Decide with a status other than approved or rejected answers 400 without
\* a store call, whatever the id; a Decide with a valid status on an id without a
\* request answers 404 (once its SELECT has returned); both leave the two tables
\* as they were.
C4_FailingDecideChangesNothing ==
    \A id \in RequestIds, st \in Statuses, f \in FailPoints :
        LET out == DecideOutcome(id, st, f)
        IN  /\ st \notin {"approved", "rejected"} =>
                  /\ out.res.code = 400
                  /\ out.res.nq = 0
                  /\ out.db.products = products
                  /\ out.db.product_requests = product_requests
            /\ (st \in {"approved", "rejected"} /\ ~\E r \in product_requests : r.id = id) =>
                  /\ f # "select" => out.res.code = 404
                  /\ out.db.products = products
                  /\ out.db.product_requests = product_requests

\* C4's case: a Decide has just answered 404 with both tables populated.
C4_Witness ==
    /\ res.op = "decide"
    /\ res.code = 404
    /\ products # {}
    /\ \E r \in product_requests : r.status = "pending"

\* C5: when every Decide handler has finished, all of them having read the same
\* request as pending: a rejected request has no product inserted from it and an
\* approved one has exactly one.
C5_ConcurrentDecideConsistent ==
    \A r \in product_requests :
        (\A h \in Handlers :
            /\ dec[h].pc = "done"
            /\ dec[h].id = r.id
            /\ dec[h].rows = {[r EXCEPT !.status = "pending"]}) =>
          /\ r.status = "rejected" => CreatedFromRequest(createdFrom, r.id) = {}
          /\ r.status = "approved" => Cardinality(CreatedFromRequest(createdFrom, r.id)) = 1

\* C6: every stored product has a positive price, a positive category reference
\* and a non-empty name and description.
C6_ProductsWellFormed ==
    \A p \in products :
        /\ p.price > 0
        /\ p.category_id > 0
        /\ p.name # ""
        /\ p.description # ""

\* C9: PUT /api/products/:id on an existing id leaves each of that product's seven
\* mutable fields equal to the body's value and changes no other row.
C9_UpdateReplacesAllFields ==
    [][\A id \in ProductIds, b \in UpdateBodies : \A p \in products :
          (p.id = id /\ PutProduct(id, b)) =>
            /\ \E q \in products' :
                  /\ q.id = id
                  /\ \A f \in ProductFields : q[f] = b[f]
            /\ \A o \in products : o.id # id => o \in products']_vars

\* A price parameter that was sent with a value and is no decimal numeral
\* (optional sign, digits, at most one point, spaces around), or is one below zero.
Malformed(v) ==
    LET t == TrimRight(TrimLeft(v.s))
        body == IF t # <<>> /\ t[1] \in {"-", "+"} THEN Tail(t) ELSE t
        numeral ==
            /\ \A i \in 1 .. Len(body) : body[i] \in Digits \cup {"."}
            /\ Cardinality({i \in 1 .. Len(body) : body[i] = "."}) <= 1
            /\ \E i \in 1 .. Len(body) : body[i] \in Digits
        negative == t[1] = "-" /\ \E i \in 1 .. Len(body) : body[i] \in Digits \ {"0"}
    IN  /\ v.present
        /\ v.s # <<>>
        /\ ~numeral \/ negative

PriceOf(v) == ToNumber(v.s)

\* A page or limit that is a positive integer numeral.
PositiveInt(v) ==
    LET n == ToNumber(v.s)
    IN  ~n.nan /\ n.e = 0 /\ n.m >= 1 /\ \A i \in 1 .. Len(v.s) : v.s[i] \in Digits

\* The row passes the filters of the request.
Matches(p, q) ==
    /\ Truthy(q.category_id) => p.category_id = ToNumber(q.category_id.s).m
    /\ Truthy(q.min_price) =>
          p.price * Pow10(PriceOf(q.min_price).e) >= PriceOf(q.min_price).m
    /\ Truthy(q.max_price) =>
          p.price * Pow10(PriceOf(q.max_price).e) <= PriceOf(q.max_price).m

\* C8: with page and limit positive integers (page 1 and limit 10 when absent) and
\* well-formed filters, the listing answers 200 with at most limit rows, which are
\* the rows at positions (page-1)*limit+1 .. page*limit of the filtered products
\* in the requested order; a page past the end is the empty list.
C8_PageWindow ==
    LET q == req_query
        page == IF q.page.present THEN ToNumber(q.page.s).m ELSE 1
        limit == IF q.limit.present THEN ToNumber(q.limit.s).m ELSE 10
        start == (page - 1) * limit
        all == {p \in products : Matches(p, q)}
        n == Cardinality(all)
        size == IF n - start <= 0 THEN 0 ELSE IF n - start < limit THEN n - start ELSE limit
    IN  ( /\ q.sent
          /\ q.page.present => PositiveInt(q.page)
          /\ q.limit.present => PositiveInt(q.limit)
          /\ Truthy(q.category_id) => PositiveInt(q.category_id)
          /\ ~Malformed(q.min_price)
          /\ ~Malformed(q.max_price) ) =>
        /\ res.code = 200
        /\ Len(result) <= limit
        /\ Len(result) = size
        /\ \E full \in Ordered(all, SortBy(q), Order(q)) :
              \A i \in 1 .. Len(result) : result[i] = full[start + i]

\* C8's case: page 2 of one row per page, out of two rows by descending price.
C8_Witness ==
    /\ req_query.sent
    /\ req_query.page = P(<<"2">>)
    /\ req_query.limit = P(<<"1">>)
    /\ req_query.sort_by.present /\ req_query.sort_by.s = "price"
    /\ req_query.order.present /\ req_query.order.s = "DESC"
    /\ Cardinality(products) = 2
    /\ res.code = 200
    /\ Len(result) = 1

\* C10: in the statement the listing builds, the clauses of the filters that are
\* present stand in the order category_id, min_price, max_price, after WHERE and
\* joined by AND (no WHERE without a filter); the i-th clause carries placeholder
\* $i and the i-th parameter is its filter's value; LIMIT and OFFSET carry the
\* next two placeholders, whose parameters are limit and offset.
C10_PlaceholdersMatchParams ==
    LET q == req_query
        vals == SelectSeq(<< [col |-> "category_id", op |-> "=", v |-> q.category_id],
                             [col |-> "price", op |-> ">=", v |-> q.min_price],
                             [col |-> "price", op |-> "<=", v |-> q.max_price] >>,
                          LAMBDA x : Truthy(x.v))
        n == Len(vals)
        conds == Tokens(sqlText, "cond")
    IN  (q.sent /\ res.code # 400) =>
        /\ Len(conds) = n
        /\ Len(params) = n + 2
        /\ \A i \in 1 .. n :
              /\ conds[i] = Cond(vals[i].col, vals[i].op, i)
              /\ params[i] = Str(vals[i].v.s)
        /\ Len(sqlText) = IF n = 0 THEN 4 ELSE 2 * n + 4
        /\ n = 0 => \A i \in 1 .. Len(sqlText) : sqlText[i] # Kw("WHERE")
        /\ n > 0 =>
              /\ sqlText[2] = Kw("WHERE")
              /\ \A i \in 1 .. n : sqlText[2 * i + 1] = conds[i]
              /\ \A i \in 1 .. (n - 1) : sqlText[2 * i + 2] = Kw("AND")
        /\ sqlText[Len(sqlText) - 1].t = "limit"
        /\ sqlText[Len(sqlText) - 1].ph = n + 1
        /\ params[n + 1] = LimitValue(q)
        /\ sqlText[Len(sqlText)].t = "offset"
        /\ sqlText[Len(sqlText)].ph = n + 2
        /\ params[n + 2] = Num(Offset(PageValue(q), LimitValue(q)))

\* C10's case: all three filters present and the statement run.
C10_Witness ==
    /\ req_query.sent
    /\ Truthy(req_query.category_id)
    /\ Truthy(req_query.min_price)
    /\ Truthy(req_query.max_price)
    /\ res.code = 200
    /\ Len(Tokens(sqlText, "cond")) = 3

====
